---- MODULE Spec2Model ----
(***************************************************************************)
(* Bloom filter of Abhisheklearn12/bloom-filter: bloom/bloom.go (the core  *)
(* BloomFilter) and bloom/bloom_safe.go (the SafeBloom RWMutex wrapper).   *)
(*                                                                         *)
(* Representation.  Go's uint64 is modelled as the integers modulo         *)
(* Two64 = 2^UintBits: TLC's integers are 32 bits wide, so the width of    *)
(* the unsigned type is a bound of the model and every +, * of the code is *)
(* reduced modulo Two64 exactly where the code's arithmetic wraps.  A      *)
(* storage word (one uint64 of bf.bits) is modelled as the set of its set  *)
(* bit indices, a subset of 0..W-1, so that "|= 1<<b" is the union with    *)
(* {b} and "& (1<<b) != 0" is membership.                                  *)
(***************************************************************************)
EXTENDS Integers, Sequences, FiniteSets, TLC

VARIABLES
    pc,       \* "start" (nothing constructed), "ready" (a filter exists), "failed" (constructor panicked)
    ctor,     \* the constructor call that was made, with its arguments
    m,        \* BloomFilter.m
    k,        \* BloomFilter.k
    bits,     \* BloomFilter.bits: a sequence of words, each the set of its set bit indices
    op,       \* the last call made on the filter and what it returned
    added,    \* items whose Add returned since construction or the last Reset
    epoch,    \* "new": no Reset since construction, "reset": a Reset happened
    writer,   \* SafeBloom.mu: the thread holding the write lock, or 0
    readers,  \* SafeBloom.mu: the threads holding a read lock
    tpc,      \* per thread: its position in the SafeBloom method it runs
    tcall,    \* per thread: the method it runs and its argument
    ti        \* per thread: the loop index i of the core Add / MightContain it runs

vars == <<pc, ctor, m, k, bits, op, added, epoch, writer, readers, tpc, tcall, ti>>

coreVars == <<pc, ctor, m, k, bits, op, added, epoch>>
safeVars == <<writer, readers, tpc, tcall, ti>>

----------------------------------------------------------------------------
(* Bounds of the model *)

\* width of the unsigned integer type (uint64 in the source)
UintBits == 8
\* largest k a filter is constructed with by New in the models of the operations
MaxK == 3
\* largest n passed to NewWithEstimates
MaxN == 20
\* the filters of the models of the operations have m in 1 .. MaxSmallM, or
\* at a word boundary, or at the wrap-around of m + 63
MaxSmallM == 6
\* number of threads using one SafeBloom
NThreads == 2

Two64 == 2 ^ UintBits
MaxUint == Two64 - 1
Uint == 0 .. MaxUint

\* the items (byte sequences) the operations are called with: "", "a", "b",
\* and "om", whose second hash has its low 9 bits zero (h2 == 0 in the model)
Items == { <<>>, <<97>>, <<98>>, <<111, 109>> }

----------------------------------------------------------------------------
(* Hashing helpers: bloom.go 141-173 *)

\* bits per storage word: the 64 of "pos / 64", "pos % 64", "(m + 63) / 64"
W == 64

\* fnv64Offset = 14695981039346656037 = 0xcbf29ce484222325, fnv64Prime =
\* 1099511628211 = 0x100000001b3, salt = 0x9e3779b97f4a7c15: their low 16 bits.
\* All hash arithmetic is modulo Two64 <= 2^16, where only these bits count.
fnv64Offset == 8997
fnv64Prime == 435
salt == 31765
\* the constant substituted for h2 == 0 (line 75, 95): 0x9e3779b97f4a7c15, low 16 bits
h2Fallback == 31765

RECURSIVE XorBits(_, _, _)
\* a ^ b on the low n bits
XorBits(a, b, n) ==
    IF n = 0 THEN 0
    ELSE (((a % 2) + (b % 2)) % 2) + 2 * XorBits(a \div 2, b \div 2, n - 1)

Xor(a, b) == XorBits(a % Two64, b % Two64, UintBits)

RECURSIVE fnvLoop(_, _, _)
\* for _, b := range data { hash ^= uint64(b); hash *= fnv64Prime }
fnvLoop(hash, data, i) ==
    IF i > Len(data) THEN hash
    ELSE fnvLoop((Xor(hash, data[i]) * (fnv64Prime % Two64)) % Two64, data, i + 1)

fnv64a(data) == fnvLoop(fnv64Offset % Two64, data, 1)

fnv64aSalted(data, s) == fnvLoop(Xor(fnv64Offset, s), data, 1)

hash128(data) == << fnv64a(data), fnv64aSalted(data, salt) >>

\* the substitution left out: h2 used as hashed
fallbackH2_none(h2) == h2

\* if h2 == 0 { h2 = 0x9e3779b97f4a7c15 }
fallbackH2(h2) == IF h2 = 0 THEN h2Fallback % Two64 ELSE h2

\* the loop index left out of the position: (h1 + h2) % bf.m
probe_noIndex(h1, h2, i, mm) == ((h1 + h2) % Two64) % mm

\* the position reduced modulo the allocated bits, not modulo m
probe_modCapacity(h1, h2, i, mm) ==
    ((h1 + ((i * h2) % Two64)) % Two64) % (W * ((mm + W - 1) \div W))

\* pos := (h1 + i*h2) % bf.m, in wrapping unsigned arithmetic
probe(h1, h2, i, mm) == ((h1 + ((i * h2) % Two64)) % Two64) % mm

----------------------------------------------------------------------------
(* The core filter: bloom.go 18-133 *)

\* make([]uint64, n)
zeroWords(n) == [ j \in 1 .. n |-> {} ]

\* wordCount := (m + 63) / 64, in wrapping unsigned arithmetic
wordCount(mm) == ((mm + (W - 1)) % Two64) \div W

New(mm, kk) ==
    IF mm = 0 \/ kk = 0
    THEN [res |-> "InvalidParameter", m |-> 0, k |-> 0, bits |-> << >>]
    ELSE [res |-> "ok", m |-> mm, k |-> kk, bits |-> zeroWords(wordCount(mm))]

\* bf.bits[wordIndex] is inside the slice
inRange(b, pos) == (pos \div W) + 1 <= Len(b)

\* the word assigned the mask instead of or-ed with it: bf.bits[wordIndex] = mask
setBit_assign(b, pos) == [ b EXCEPT ![(pos \div W) + 1] = { pos % W } ]

\* the mask xor-ed into the word: bf.bits[wordIndex] ^= mask
setBit_toggle(b, pos) ==
    [ b EXCEPT ![(pos \div W) + 1] =
        IF (pos % W) \in @ THEN @ \ { pos % W } ELSE @ \cup { pos % W } ]

setBit(b, pos) == [ b EXCEPT ![(pos \div W) + 1] = @ \cup { pos % W } ]

getBit(b, pos) == (pos % W) \in b[(pos \div W) + 1]

RECURSIVE addLoop(_, _, _, _, _, _)
\* for i := 0; i < bf.k; i++ { bf.setBit((h1 + i*h2) % bf.m) }
\* an index outside bf.bits is Go's run-time panic, the bits set so far remain
addLoop(b, mm, kk, h1, h2, i) ==
    IF i >= kk THEN [res |-> "ok", bits |-> b]
    ELSE LET pos == probe(h1, h2, i, mm) IN
         IF ~ inRange(b, pos) THEN [res |-> "IndexOutOfRange", bits |-> b]
         ELSE addLoop(setBit(b, pos), mm, kk, h1, h2, i + 1)

\* the loop started at i = 1: the first probe is never set
Add_skipFirst(b, mm, kk, data) ==
    IF mm = 0 \/ kk = 0 THEN [res |-> "NotInitialized", bits |-> b]
    ELSE LET h == hash128(data) IN addLoop(b, mm, kk, h[1], fallbackH2(h[2]), 1)

Add(b, mm, kk, data) ==
    IF mm = 0 \/ kk = 0 THEN [res |-> "NotInitialized", bits |-> b]
    ELSE LET h == hash128(data) IN addLoop(b, mm, kk, h[1], fallbackH2(h[2]), 0)

RECURSIVE containLoop(_, _, _, _, _, _)
\* for i := 0; i < bf.k; i++ { if !bf.getBit(pos) { return false } }; return true
containLoop(b, mm, kk, h1, h2, i) ==
    IF i >= kk THEN "true"
    ELSE LET pos == probe(h1, h2, i, mm) IN
         IF ~ inRange(b, pos) THEN "IndexOutOfRange"
         ELSE IF ~ getBit(b, pos) THEN "false"
         ELSE containLoop(b, mm, kk, h1, h2, i + 1)

MightContain(b, mm, kk, data) ==
    IF mm = 0 \/ kk = 0 THEN "NotInitialized"
    ELSE LET h == hash128(data) IN containLoop(b, mm, kk, h[1], fallbackH2(h[2]), 0)

\* the last word left as it is: for i := 0; i < len(bf.bits)-1; i++
Reset_skipLast(b) == [ j \in 1 .. Len(b) |-> IF j = Len(b) THEN b[j] ELSE {} ]

\* the slice truncated instead of zeroed: bf.bits = bf.bits[:0]
Reset_truncate(b) == << >>

\* for i := range bf.bits { bf.bits[i] = 0 }
Reset(b) == [ j \in 1 .. Len(b) |-> {} ]

\* fmt.Sprintf("BloomFilter{m=%d bits, k=%d}", bf.m, bf.k)
Info(mm, kk) == << "BloomFilter{m=", mm, " bits, k=", kk, "}" >>

----------------------------------------------------------------------------
(* Sequential use of one filter *)

NoOp == [name |-> "none", item |-> << >>, res |-> "none"]

SafeIdle ==
    /\ writer = 0
    /\ readers = {}
    /\ tpc = [t \in 1 .. NThreads |-> "idle"]
    /\ tcall = [t \in 1 .. NThreads |-> NoOp]
    /\ ti = [t \in 1 .. NThreads |-> 0]

\* the state New(mm, kk) returns a filter in
Constructed(mm, kk) ==
    LET f == New(mm, kk) IN
    /\ f.res = "ok"
    /\ pc = "ready"
    /\ ctor = [fn |-> "New", m |-> mm, k |-> kk]
    /\ m = f.m
    /\ k = f.k
    /\ bits = f.bits
    /\ op = NoOp
    /\ added = {}
    /\ epoch = "new"

\* sizes of the filters the operations are run on: small ones (colliding
\* probes, false positives), the word boundaries, and both sides of the
\* largest m for which m + 63 does not wrap
SomeM ==
    (1 .. MaxSmallM) \cup { W - 1, W, W + 1, 2 * W, Two64 - W, Two64 - W + 1, MaxUint }

Init ==
    /\ \E mm \in SomeM, kk \in 1 .. MaxK : Constructed(mm, kk)
    /\ SafeIdle

CallAdd(x) ==
    LET r == Add(bits, m, k, x) IN
    /\ pc = "ready"
    /\ bits' = r.bits
    /\ op' = [name |-> "Add", item |-> x, res |-> r.res]
    /\ added' = IF r.res = "ok" THEN added \cup {x} ELSE added
    /\ UNCHANGED <<pc, ctor, m, k, epoch>>

\* a query that sets the bits it probes
CallMightContain_setting(x) ==
    /\ pc = "ready"
    /\ op' = [name |-> "MightContain", item |-> x, res |-> MightContain(bits, m, k, x)]
    /\ bits' = Add(bits, m, k, x).bits
    /\ UNCHANGED <<pc, ctor, m, k, added, epoch>>

CallMightContain(x) ==
    /\ pc = "ready"
    /\ op' = [name |-> "MightContain", item |-> x, res |-> MightContain(bits, m, k, x)]
    /\ UNCHANGED <<pc, ctor, m, k, bits, added, epoch>>

CallReset ==
    /\ pc = "ready"
    /\ bits' = Reset(bits)
    /\ op' = [name |-> "Reset", item |-> << >>, res |-> "ok"]
    /\ added' = {}
    /\ epoch' = "reset"
    /\ UNCHANGED <<pc, ctor, m, k>>

CallInfo ==
    /\ pc = "ready"
    /\ op' = [name |-> "Info", item |-> << >>, res |-> Info(m, k)]
    /\ UNCHANGED <<pc, ctor, m, k, bits, added, epoch>>

Next ==
    \/ \E x \in Items : CallAdd(x) /\ UNCHANGED safeVars
    \/ \E x \in Items : CallMightContain(x) /\ UNCHANGED safeVars
    \/ CallReset /\ UNCHANGED safeVars
    \/ CallInfo /\ UNCHANGED safeVars

Spec == Init /\ [][Next]_vars

----------------------------------------------------------------------------
(* The constructors: bloom.go 18-64 *)

\* float64 values of fpRate: NaN, or a number given in thousandths
NaN == [nan |-> TRUE, milli |-> 0]
Num(x) == [nan |-> FALSE, milli |-> x]
FpRates == { NaN, Num(-1000), Num(0), Num(1), Num(10), Num(500), Num(999), Num(1000), Num(2000) }

\* fpRate <= 0.0 || fpRate >= 1.0: every comparison with NaN is false
rejectedFpRate(fp) == (~ fp.nan /\ fp.milli <= 0) \/ (~ fp.nan /\ fp.milli >= 1000)

\* -math.Log(fpRate) / (ln2 * ln2) in thousandths, for the fpRate of FpRates in (0, 1)
negLogOverLn2Sq(fp) ==
    CASE fp.milli = 1 -> 14378
      [] fp.milli = 10 -> 9585
      [] fp.milli = 500 -> 1443
      [] fp.milli = 999 -> 2

\* math.Ceil(-float64(n) * math.Log(fpRate) / (ln2 * ln2)), as an unbounded integer
ceilM(n, fp) == ((n * negLogOverLn2Sq(fp)) + 999) \div 1000

\* math.Ceil((float64(m) / float64(n)) * ln2), ln2 taken as 0.693
ceilK(mm, n) == ((mm * 693) + (n * 1000) - 1) \div (n * 1000)

\* uint64(f) for a float64 f: the value when it fits; for NaN and for a value
\* out of range the Go specification leaves the result to the implementation
toUint64(isNaN, c) == IF isNaN \/ c < 0 \/ c > MaxUint THEN Uint ELSE { c }

\* the m NewWithEstimates may compute (lines 51-55)
estimateM(n, fp) ==
    { IF c = 0 THEN 1 ELSE c :
        c \in toUint64(fp.nan, IF fp.nan THEN 0 ELSE ceilM(n, fp)) }

\* the k NewWithEstimates computes from m (lines 57-61)
estimateK(mm, n) == LET c == ceilK(mm, n) IN IF c = 0 THEN 1 ELSE c

NoCtor == [fn |-> "none"]

InitNew ==
    /\ pc = "start"
    /\ ctor = NoCtor
    /\ m = 0
    /\ k = 0
    /\ bits = << >>
    /\ op = NoOp
    /\ added = {}
    /\ epoch = "new"
    /\ SafeIdle

\* the caller's state after New(mm, kk) returned f or panicked
Returned(f) ==
    /\ pc' = IF f.res = "ok" THEN "ready" ELSE "failed"
    /\ op' = [name |-> "New", item |-> << >>, res |-> f.res]
    /\ m' = f.m
    /\ k' = f.k
    /\ bits' = f.bits
    /\ UNCHANGED <<added, epoch>>

CallNew(mm, kk) ==
    /\ pc = "start"
    /\ ctor' = [fn |-> "New", m |-> mm, k |-> kk]
    /\ Returned(New(mm, kk))

CallNewWithEstimates(n, fp) ==
    /\ pc = "start"
    /\ ctor' = [fn |-> "NewWithEstimates", n |-> n, fpRate |-> fp]
    /\ IF n = 0 \/ rejectedFpRate(fp)
       THEN Returned([res |-> "InvalidParameter", m |-> 0, k |-> 0, bits |-> << >>])
       ELSE \E mm \in estimateM(n, fp) : Returned(New(mm, estimateK(mm, n)))

NextNew ==
    \/ \E mm \in Uint, kk \in 0 .. MaxK : CallNew(mm, kk) /\ UNCHANGED safeVars
    \/ \E n \in 0 .. MaxN, fp \in FpRates : CallNewWithEstimates(n, fp) /\ UNCHANGED safeVars

SpecNew == InitNew /\ [][NextNew]_vars

----------------------------------------------------------------------------
(* SafeBloom: bloom_safe.go 6-47.  Threads call the four methods of one    *)
(* SafeBloom; each method takes s.mu, runs the core method one loop        *)
(* iteration per step, and releases s.mu.                                  *)

Threads == 1 .. NThreads

\* sizes and items of the SafeBloom under the threads
SafeM == { MaxSmallM, 2 * W, MaxUint }
SafeItems == { <<>>, <<97>> }

InitSafe ==
    /\ \E mm \in SafeM, kk \in 1 .. 2 : Constructed(mm, kk)
    /\ SafeIdle

Writers == {"Add", "Reset"}

\* a thread enters a method of SafeBloom
SafeCall(t, name, x) ==
    /\ tpc[t] = "idle"
    /\ tcall' = [tcall EXCEPT ![t] = [name |-> name, item |-> x, res |-> "none"]]
    /\ tpc' = [tpc EXCEPT ![t] = IF name \in Writers THEN "Lock" ELSE "RLock"]
    /\ UNCHANGED <<coreVars, writer, readers, ti>>

\* Add and Reset taking the read lock
Lock_shared(t) ==
    /\ tpc[t] = "Lock"
    /\ writer = 0
    /\ readers' = readers \cup {t}
    /\ tpc' = [tpc EXCEPT ![t] = "core"]
    /\ ti' = [ti EXCEPT ![t] = 0]
    /\ added' = IF tcall[t].name = "Reset" THEN {} ELSE added
    /\ epoch' = IF tcall[t].name = "Reset" THEN "reset" ELSE epoch
    /\ UNCHANGED <<pc, ctor, m, k, bits, op, writer, tcall>>

\* s.mu.Lock() returns: no reader and no writer holds s.mu.
\* A Reset is ordered against the Adds by the moment it takes the lock.
Lock(t) ==
    /\ tpc[t] = "Lock"
    /\ writer = 0
    /\ readers = {}
    /\ writer' = t
    /\ tpc' = [tpc EXCEPT ![t] = "core"]
    /\ ti' = [ti EXCEPT ![t] = 0]
    /\ added' = IF tcall[t].name = "Reset" THEN {} ELSE added
    /\ epoch' = IF tcall[t].name = "Reset" THEN "reset" ELSE epoch
    /\ UNCHANGED <<pc, ctor, m, k, bits, op, readers, tcall>>

\* a read lock granted while a writer holds the lock
RLock_unguarded(t) ==
    /\ tpc[t] = "RLock"
    /\ readers' = readers \cup {t}
    /\ tpc' = [tpc EXCEPT ![t] = "core"]
    /\ ti' = [ti EXCEPT ![t] = 0]
    /\ UNCHANGED <<coreVars, writer, tcall>>

\* s.mu.RLock() returns: no writer holds s.mu and none is waiting for it
RLock(t) ==
    /\ tpc[t] = "RLock"
    /\ writer = 0
    /\ \A u \in Threads : tpc[u] # "Lock"
    /\ readers' = readers \cup {t}
    /\ tpc' = [tpc EXCEPT ![t] = "core"]
    /\ ti' = [ti EXCEPT ![t] = 0]
    /\ UNCHANGED <<coreVars, writer, tcall>>

\* the method returns res to its caller, or panics with res
Leave(t, res) ==
    /\ tcall' = [tcall EXCEPT ![t].res = res]
    /\ tpc' = [tpc EXCEPT ![t] =
                 IF res \in {"NotInitialized", "IndexOutOfRange"} THEN "panicked" ELSE "idle"]

\* h2 of the item thread t works on
h2Of(t) == fallbackH2(hash128(tcall[t].item)[2])
posOf(t) == probe(hash128(tcall[t].item)[1], h2Of(t), ti[t], m)

\* s.bf.Add(data); s.mu.Unlock(): one iteration of the loop of the core Add,
\* or its return and the Unlock.  A panic of the core Add leaves the method
\* before s.mu.Unlock() (line 25 is not deferred): the lock stays held.
SafeAddStep(t) ==
    /\ tpc[t] = "core"
    /\ tcall[t].name = "Add"
    /\ IF m = 0 \/ k = 0
       THEN Leave(t, "NotInitialized") /\ UNCHANGED <<coreVars, writer, readers, ti>>
       ELSE IF ti[t] < k
       THEN IF inRange(bits, posOf(t))
            THEN /\ bits' = setBit(bits, posOf(t))
                 /\ ti' = [ti EXCEPT ![t] = @ + 1]
                 /\ UNCHANGED <<pc, ctor, m, k, op, added, epoch, writer, readers, tpc, tcall>>
            ELSE Leave(t, "IndexOutOfRange") /\ UNCHANGED <<coreVars, writer, readers, ti>>
       ELSE /\ Leave(t, "ok")
            /\ writer' = IF writer = t THEN 0 ELSE writer
            /\ readers' = readers \ {t}
            /\ added' = added \cup {tcall[t].item}
            /\ UNCHANGED <<pc, ctor, m, k, bits, op, epoch, ti>>

\* s.bf.Reset(); s.mu.Unlock(): one word zeroed, or the return and the Unlock
SafeResetStep(t) ==
    /\ tpc[t] = "core"
    /\ tcall[t].name = "Reset"
    /\ IF ti[t] < Len(bits)
       THEN /\ bits' = [bits EXCEPT ![ti[t] + 1] = {}]
            /\ ti' = [ti EXCEPT ![t] = @ + 1]
            /\ UNCHANGED <<pc, ctor, m, k, op, added, epoch, writer, readers, tpc, tcall>>
       ELSE /\ Leave(t, "ok")
            /\ writer' = IF writer = t THEN 0 ELSE writer
            /\ readers' = readers \ {t}
            /\ UNCHANGED <<coreVars, ti>>

\* defer s.mu.RUnlock(); return s.bf.MightContain(data): one iteration of the
\* loop of the core MightContain, or its return.  The deferred RUnlock runs on
\* return and on panic.
SafeMightContainStep(t) ==
    /\ tpc[t] = "core"
    /\ tcall[t].name = "MightContain"
    /\ UNCHANGED <<coreVars, writer>>
    /\ IF m = 0 \/ k = 0
       THEN Leave(t, "NotInitialized") /\ readers' = readers \ {t} /\ UNCHANGED ti
       ELSE IF ti[t] < k
       THEN IF ~ inRange(bits, posOf(t))
            THEN Leave(t, "IndexOutOfRange") /\ readers' = readers \ {t} /\ UNCHANGED ti
            ELSE IF ~ getBit(bits, posOf(t))
            THEN Leave(t, "false") /\ readers' = readers \ {t} /\ UNCHANGED ti
            ELSE /\ ti' = [ti EXCEPT ![t] = @ + 1]
                 /\ UNCHANGED <<readers, tpc, tcall>>
       ELSE Leave(t, "true") /\ readers' = readers \ {t} /\ UNCHANGED ti

\* defer s.mu.RUnlock(); return s.bf.Info()
SafeInfoStep(t) ==
    /\ tpc[t] = "core"
    /\ tcall[t].name = "Info"
    /\ Leave(t, "info")
    /\ readers' = readers \ {t}
    /\ UNCHANGED <<coreVars, writer, ti>>

NextSafe ==
    \/ \E t \in Threads, x \in SafeItems : SafeCall(t, "Add", x)
    \/ \E t \in Threads, x \in SafeItems : SafeCall(t, "MightContain", x)
    \/ \E t \in Threads : SafeCall(t, "Reset", << >>)
    \/ \E t \in Threads : SafeCall(t, "Info", << >>)
    \/ \E t \in Threads : Lock(t)
    \/ \E t \in Threads : RLock(t)
    \/ \E t \in Threads : SafeAddStep(t)
    \/ \E t \in Threads : SafeResetStep(t)
    \/ \E t \in Threads : SafeMightContainStep(t)
    \/ \E t \in Threads : SafeInfoStep(t)

SpecSafe == InitSafe /\ [][NextSafe]_vars

----------------------------------------------------------------------------
(* One filter, used either directly or through its SafeBloom wrapper *)

\* no thread has entered a method of the wrapper
SafeQuiet == tcall = [t \in Threads |-> NoOp]

NextBoth ==
    \/ SafeQuiet /\ Next
    \/ op = NoOp /\ m \in SafeM /\ k <= 2 /\ NextSafe

SpecBoth == Init /\ [][NextBoth]_vars

----------------------------------------------------------------------------
(* Properties of SafeBloom, under SpecSafe *)

\* the threads executing a core method
InCore(name) == { t \in Threads : tpc[t] = "core" /\ tcall[t].name = name }
InAnyCore == { t \in Threads : tpc[t] = "core" }

\* C4: reader/writer exclusion.  While a thread executes the core Add or
\* Reset, no other thread executes any core method; only MightContain and
\* Info overlap.
C4_Exclusion ==
    \A t \in InCore("Add") \cup InCore("Reset") : InAnyCore = {t} /\ writer = t

\* a thread is in the middle of the core Add while another thread waits for
\* the lock (to write or to read)
C4_Witness ==
    \E t \in InCore("Add"), u \in Threads :
        /\ ti[t] >= 1
        /\ u # t
        /\ tpc[u] \in {"Lock", "RLock"}

\* C5: no operation blocks indefinitely.  Every method called releases the
\* lock when it is left, so the lock is free whenever no thread is inside a
\* method (and a thread that calls one next is not blocked for ever).
C5_LockFreeWhenQuiet ==
    (\A t \in Threads : tpc[t] \in {"idle", "panicked"}) => (writer = 0 /\ readers = {})

----------------------------------------------------------------------------
(* Properties of the sequential operations, under Spec *)

\* C1: no false negatives.  Every item whose Add returned since construction
\* or the last Reset is reported present by MightContain; a MightContain that
\* returned false was for an item not added since then.
C1_NoFalseNegatives ==
    /\ \A x \in added : MightContain(bits, m, k, x) = "true"
    /\ (op.name = "MightContain" /\ op.res = "false") => op.item \notin added

\* two items were added after a Reset and one of them was queried
C1_Witness ==
    /\ epoch = "reset"
    /\ Cardinality(added) >= 2
    /\ op.name = "MightContain"
    /\ op.item \in added
    /\ op.res = "true"

\* C2: Reset clears all state.  After a Reset and with no item added since,
\* MightContain returns false for every item, for every m > 0 and k > 0.
C2_ResetClears ==
    (epoch = "reset" /\ added = {} /\ op.name = "MightContain") => op.res = "false"

\* C6: queries are deterministic.  A MightContain or Info step leaves m, k and
\* every bit unchanged, and what MightContain returned is what MightContain
\* of the same item returns in the state it leaves (so the next call agrees).
C6_QueriesArePure ==
    [][ op'.name \in {"MightContain", "Info"} =>
          /\ m' = m /\ k' = k /\ bits' = bits
          /\ op'.name = "MightContain" =>
                /\ op'.res = MightContain(bits, m, k, op'.item)
                /\ op'.res = MightContain(bits', m', k', op'.item) ]_vars

\* a query answered false on a filter that holds an item
C6_Witness ==
    /\ op.name = "MightContain"
    /\ op.res = "false"
    /\ added # {}

\* C7: operations on a constructed filter never fail.  No Add or MightContain
\* on a filter New returned ends in NotInitialized or in an index outside
\* the bit array.
C7_OperationsNeverFail ==
    (pc = "ready" /\ op.name \in {"Add", "MightContain"}) =>
        op.res \notin {"NotInitialized", "IndexOutOfRange"}

\* C8: Add is idempotent in effect.  In the state an Add(x) leaves, another
\* Add(x) changes no bit and ends the same way.
C8_AddIdempotent ==
    op.name = "Add" =>
        LET r == Add(bits, m, k, op.item) IN r.bits = bits /\ r.res = op.res

\* an Add returned on a filter with k >= 2 that already held another item
C8_Witness ==
    /\ op.name = "Add"
    /\ op.res = "ok"
    /\ k >= 2
    /\ Cardinality(added) >= 2

----------------------------------------------------------------------------
(* Properties of the constructors, under SpecNew *)

\* fpRate strictly inside (0, 1)
InsideOpenUnit(fp) == ~ fp.nan /\ 0 < fp.milli /\ fp.milli < 1000

\* C3: parameter validation.  New(m, k) fails with InvalidParameter exactly
\* when m = 0 or k = 0; NewWithEstimates(n, fpRate) fails with
\* InvalidParameter whenever n = 0 or fpRate is not strictly inside (0, 1);
\* for all other inputs a filter is returned.
C3_ParameterValidation ==
    /\ ctor.fn = "New" =>
          /\ (pc = "failed") <=> (ctor.m = 0 \/ ctor.k = 0)
          /\ pc = "failed" => op.res = "InvalidParameter"
    /\ ctor.fn = "NewWithEstimates" =>
          /\ (pc = "failed") <=> (ctor.n = 0 \/ ~ InsideOpenUnit(ctor.fpRate))
          /\ pc = "failed" => op.res = "InvalidParameter"

\* C9: estimate construction.  For n > 0 and fpRate strictly in (0, 1) the
\* filter has m = ceil(-n ln(fpRate) / (ln 2)^2) and k = ceil((m / n) ln 2),
\* each at least 1, and the delegated New does not fail.
C9_EstimateParameters ==
    (ctor.fn = "NewWithEstimates" /\ ctor.n > 0 /\ InsideOpenUnit(ctor.fpRate)) =>
        LET c == ceilM(ctor.n, ctor.fpRate)
            wantM == IF c = 0 THEN 1 ELSE c
            d == ceilK(wantM, ctor.n)
            wantK == IF d = 0 THEN 1 ELSE d
        IN  pc = "ready" /\ m = wantM /\ k = wantK /\ m > 0 /\ k > 0

\* C10: the word count is minimal and sufficient.  A filter New(m, k) returned
\* has exactly ceil(m / 64) words, all zero: the least count with count * 64 >= m.
C10_WordCount ==
    (pc = "ready" /\ ctor.fn = "New") =>
        /\ Len(bits) * W >= m
        /\ (Len(bits) - 1) * W < m
        /\ \A j \in 1 .. Len(bits) : bits[j] = {}

----------------------------------------------------------------------------
(* The probe positions and the bit vector *)

\* the positions of the set bits of a word array: 64 * wordIndex + bitIndex
SetPositions(b) ==
    UNION { { W * (j - 1) + x : x \in b[j] } : j \in 1 .. Len(b) }

\* the two hashes of an item, h2 replaced by the fallback constant when it is 0
HashOf == [ x \in Items |-> hash128(x) ]
H1(x) == HashOf[x][1]
H2(x) == IF HashOf[x][2] = 0 THEN h2Fallback % Two64 ELSE HashOf[x][2]

\* (h1 + i * h2) mod m for i in [0, kk), the sum taken in the unsigned type (wrapping)
WrappedProbes(x, mm, kk) ==
    { ((H1(x) + i * H2(x)) % Two64) % mm : i \in 0 .. kk - 1 }

\* (h1 + i * h2) mod m for i in [0, kk), the sum taken in the integers
ExactProbes(x, mm, kk) ==
    { (H1(x) + i * H2(x)) % mm : i \in 0 .. kk - 1 }

C12_BitsBelowM ==
    \A p \in SetPositions(bits) : 0 <= p /\ p < m

\* bits are set in a filter whose last word has padding bits
C12_Witness ==
    /\ m % W # 0
    /\ Cardinality(SetPositions(bits)) >= 2
    /\ Cardinality(added) >= 2

\* C13: bits are monotonic between resets.  A step that is not a Reset keeps
\* every set bit set; a Reset leaves no bit set.
C13_Monotonic ==
    [][ /\ op'.name # "Reset" => SetPositions(bits) \subseteq SetPositions(bits')
        /\ op'.name = "Reset" => SetPositions(bits') = {} ]_vars

\* a Reset cleared a filter of several words, and bits were set again
C13_Witness ==
    /\ epoch = "reset"
    /\ Len(bits) >= 2
    /\ op.name = "Add"
    /\ \E p \in SetPositions(bits) : p >= W

\* C14: m and k are immutable after construction.  No step of Add,
\* MightContain, Reset or Info, called directly or through SafeBloom, changes
\* m, k or the number of words of the filter.
C14_Immutable ==
    [][ m' = m /\ k' = k /\ Len(bits') = Len(bits) ]_vars

\* through the wrapper an Add and a Reset have returned and bits are set
C14_Witness ==
    /\ SetPositions(bits) # {}
    /\ \E t, u \in Threads :
          /\ tcall[t].name = "Reset" /\ tcall[t].res = "ok"
          /\ tcall[u].name = "Add" /\ tcall[u].res = "ok"

\* directly, a Reset and then an Add have returned on a filter of several words
C14_WitnessDirect ==
    /\ epoch = "reset"
    /\ op.name = "Add"
    /\ op.res = "ok"
    /\ Len(bits) >= 2

\* the positions probed with the fallback constant in place of h2
FallbackProbes(x, mm, kk) ==
    { ((H1(x) + i * (h2Fallback % Two64)) % Two64) % mm : i \in 0 .. kk - 1 }

\* the sums h1 + i * c before the reduction modulo m, c the fallback constant
FallbackSums(x, kk) ==
    { (H1(x) + i * (h2Fallback % Two64)) % Two64 : i \in 0 .. kk - 1 }

\* C15 as stated: when an item's h2 is 0, the probe sequence does not
\* collapse: for m >= 2 and k >= 2 the k positions an Add sets are not all equal.
C15_NotCollapsed ==
    ( /\ op.name = "Add" /\ op.res = "ok" /\ added = {op.item}
      /\ hash128(op.item)[2] = 0
      /\ m >= 2 /\ k >= 2 ) =>
        Cardinality(SetPositions(bits)) >= 2

\* C15 amended: when an item's h2 is 0, Add and MightContain both use the
\* same nonzero odd constant c in its place: Add sets exactly the positions
\* ((h1 + i * c) mod 2^64) mod m, MightContain returns true exactly when
\* they are all set, and the sums (h1 + i * c) mod 2^64, i in [0, k), are
\* pairwise different (the positions after the reduction may coincide).
C15_Substitution ==
    [][ (op'.name \in {"Add", "MightContain"} /\ hash128(op'.item)[2] = 0) =>
          /\ (h2Fallback % Two64) % 2 = 1
          /\ Cardinality(FallbackSums(op'.item, k)) = k
          /\ (op'.name = "Add" /\ op'.res = "ok") =>
                SetPositions(bits') = SetPositions(bits) \cup FallbackProbes(op'.item, m, k)
          /\ (op'.name = "MightContain") =>
                ((op'.res = "true") <=> (FallbackProbes(op'.item, m, k) \subseteq SetPositions(bits)))
      ]_vars

\* an item whose h2 is 0 was added with k >= 2, set several bits and was found
C15_Witness ==
    /\ op.name = "MightContain"
    /\ op.res = "true"
    /\ hash128(op.item)[2] = 0
    /\ added = {op.item}
    /\ k >= 2
    /\ Cardinality(SetPositions(bits)) >= 2

\* the union of the probe sets of the items added
ProbeUnion == UNION { WrappedProbes(x, m, k) : x \in added }

\* C16: the bit state is exactly the union of the probe sets of the items
\* added since construction or the last Reset (whatever their order and
\* multiplicity), and MightContain(x) returns true exactly when every probe
\* position of x lies in that union.
C16_UnionOfProbes ==
    /\ SetPositions(bits) = ProbeUnion
    /\ \A x \in Items :
          (MightContain(bits, m, k, x) = "true") <=> (WrappedProbes(x, m, k) \subseteq ProbeUnion)

\* a false positive: an item never added is reported present because its
\* probes lie in the union of the probes of two added items
C16_Witness ==
    /\ op.name = "MightContain"
    /\ op.res = "true"
    /\ op.item \notin added
    /\ Cardinality(added) >= 2
    /\ \A y \in added : ~ (WrappedProbes(op.item, m, k) \subseteq WrappedProbes(y, m, k))

\* C17: the wrapper's methods are atomic.  A thread holds the read lock only
\* in states whose bits are exactly the probes of the items whose
\* SafeBloom.Add has returned since the last Reset took the write lock (no
\* partly applied Add, no partly cleared Reset); and a MightContain(x)
\* returns true exactly when the probes of x lie in those, in particular
\* whenever such an Add(x) has returned.
C17_Atomic ==
    [][ /\ readers' # {} => SetPositions(bits') = ProbeUnion'
        /\ \A t \in Threads :
             ( /\ tpc[t] = "core" /\ tcall[t].name = "MightContain"
               /\ tpc'[t] = "idle" ) =>
                /\ (tcall'[t].res = "true") <=>
                      (WrappedProbes(tcall[t].item, m, k) \subseteq ProbeUnion)
                /\ tcall[t].item \in added => tcall'[t].res = "true"
      ]_vars

\* after a Reset, one thread's Add(x) returned and another thread's
\* MightContain(x) returned true, on a filter of two words with k = 2
C17_Witness ==
    /\ epoch = "reset"
    /\ Len(bits) >= 2
    /\ k >= 2
    /\ \E t, u \in Threads :
          /\ t # u
          /\ tpc[t] = "idle" /\ tcall[t].name = "MightContain" /\ tcall[t].res = "true"
          /\ tpc[u] = "idle" /\ tcall[u].name = "Add" /\ tcall[u].res = "ok"
          /\ tcall[u].item = tcall[t].item
          /\ tcall[t].item \in added

====
